---- MODULE Spec2Model ----
(***************************************************************************)
(* Model of backend/app/main.py: the single-winner contest backend.        *)
(* The datastore is PostgreSQL under READ COMMITTED: `db` is the committed *)
(* state, `tx[p]` the uncommitted writes of request p, `lk` the exclusive  *)
(* row locks (SELECT ... FOR UPDATE, UPDATE, DELETE) held until commit or  *)
(* rollback.  Every database statement of a handler is one step.           *)
(***************************************************************************)
EXTENDS Integers, Sequences, FiniteSets, TLC

----------------------------------------------------------------------------
(* Bounds of the model *)
NProcs == 2
NActors == 2
MaxTokens == 2
MaxReqs == 5
MaxTicks == 1
TickMinutes == 20

(* Program constants *)
BLOCK_MINUTES == 10
TOKEN_MINUTES == 15
FAIL_THRESHOLD == 3

NULL == -1
Procs == 1..NProcs
Actors == 1..NActors
Tokens == 1..MaxTokens

(* The configured secret code and the sample request bodies *)
SecretCode == <<"7", "4", "2", "1">>
Codes == { <<"7", "4", "2", "1">>,
           <<" ", "7", "4", "2", "1">>,
           <<"0", "0", "0", "0">>,
           <<"7", "4", "a", "1">> }
CodeChars == {"0", "1", "2", "4", "7", "A", "Z"}
Keys == {"none", "bad", "good"}

VARIABLES TEST_MODE, now, db, lk, pc, req, loc, tx, out, nreq, nextTok, nextContact, hist

vars == <<TEST_MODE, now, db, lk, pc, req, loc, tx, out, nreq, nextTok, nextContact, hist>>

----------------------------------------------------------------------------
(* Rows *)
NoLockRow == [exists |-> FALSE, failed_count |-> 0, blocked_until |-> NULL]
NoTokenRow == [exists |-> FALSE, actor_hash |-> NULL, expires_at |-> NULL, used_at |-> NULL]
InitState == [winner_actor_hash |-> NULL, winner_claimed_at |-> NULL, contact_submitted |-> FALSE]

InitDb == [contest_state |-> InitState,
           attempt_locks |-> [a \in Actors |-> NoLockRow],
           winner_claim_tokens |-> [t \in Tokens |-> NoTokenRow],
           winner_contacts |-> {}]

(* Uncommitted writes of one transaction *)
NoTx == [cs |-> [op |-> "none", row |-> InitState],
         al |-> [a \in Actors |-> [op |-> "none", row |-> NoLockRow]],
         tok |-> [t \in Tokens |-> [op |-> "none", row |-> NoTokenRow]],
         ins |-> {},
         del |-> {}]

NoLk == [cs |-> 0, al |-> [a \in Actors |-> 0], tok |-> [t \in Tokens |-> 0]]

NoReq == [op |-> "none", actor |-> NULL, code |-> <<>>, token |-> NULL, valid |-> FALSE, key |-> "none"]
NoLoc == [lock |-> NoLockRow, tnow |-> NULL, token |-> NoTokenRow, failed |-> 0, txStart |-> NULL, rawtok |-> NULL]
NoResp == [status |-> 0, reason |-> "none", remaining |-> NULL, blockedUntil |-> NULL,
           claimToken |-> NULL, emailSent |-> FALSE]

NoOut == [req |-> NoReq, resp |-> NoResp]

Response(status, reason) == [NoResp EXCEPT !.status = status, !.reason = reason]

(* COMMIT: the transaction's writes become the committed state *)
Commit(d, t) ==
    [contest_state |-> IF t.cs.op = "put" THEN t.cs.row ELSE d.contest_state,
     attempt_locks |-> [a \in Actors |->
         IF t.al[a].op = "put" THEN t.al[a].row
         ELSE IF t.al[a].op = "del" THEN NoLockRow ELSE d.attempt_locks[a]],
     winner_claim_tokens |-> [k \in Tokens |->
         IF t.tok[k].op = "put" THEN t.tok[k].row
         ELSE IF t.tok[k].op = "del" THEN NoTokenRow ELSE d.winner_claim_tokens[k]],
     winner_contacts |-> {c \in d.winner_contacts : c.id \notin t.del} \cup t.ins]

(* The error path commits what the transaction wrote so far *)
Rollback_Commits(d, t) == Commit(d, t)

(* ROLLBACK: the transaction's writes are discarded *)
Rollback(d, t) == d

(* The row locks outlive the transaction *)
Release_None(l, p) == l

(* Releasing every row lock request p holds *)
Release(l, p) ==
    [cs |-> IF l.cs = p THEN 0 ELSE l.cs,
     al |-> [a \in Actors |-> IF l.al[a] = p THEN 0 ELSE l.al[a]],
     tok |-> [t \in Tokens |-> IF l.tok[t] = p THEN 0 ELSE l.tok[t]]]

(* A row lock can be taken when it is free or already held by p *)
Free(holder, p) == holder \in {0, p}

----------------------------------------------------------------------------
(* Pure parts of the handlers *)

RECURSIVE StripLeft(_)
StripLeft(s) == IF s # <<>> /\ Head(s) = " " THEN StripLeft(Tail(s)) ELSE s

RECURSIVE StripRight(_)
StripRight(s) ==
    IF s # <<>> /\ s[Len(s)] = " " THEN StripRight(SubSeq(s, 1, Len(s) - 1)) ELSE s

Strip(s) == StripRight(StripLeft(s))

(* The format check is missing *)
CodeFormatOk_Any(code) == TRUE

(* re.fullmatch(r"[0-9A-Z]{4}", code) *)
CodeFormatOk(code) == Len(code) = 4 /\ \A i \in 1..4 : code[i] \in CodeChars

(* ph.verify(CODE_HASH, code), a mismatch is False *)
Verify(code) == code = SecretCode

(* The winner check is missing *)
AlreadyWon_Never(state) == FALSE

(* state and state.get("winner_actor_hash") *)
AlreadyWon(state) == state.winner_actor_hash # NULL

(* The block check is missing *)
IsBlocked_Never(lock, t) == FALSE

(* lock and lock.get("blocked_until") and lock["blocked_until"] > now *)
IsBlocked(lock, t) == lock.exists /\ lock.blocked_until # NULL /\ lock.blocked_until > t

(* failed = (lock["failed_count"] if lock else 0) + 1 *)
NewFailed(lock) == (IF lock.exists THEN lock.failed_count ELSE 0) + 1

(* The block is imposed one failure late *)
ReachedThreshold_OffByOne(failed) == failed > FAIL_THRESHOLD

(* if failed >= 3 *)
ReachedThreshold(failed) == failed >= FAIL_THRESHOLD

(* now + timedelta(minutes=BLOCK_MINUTES) *)
BlockedUntil(t) == t + BLOCK_MINUTES

(* remaining = max(0, 3 - failed) *)
Remaining(failed) == IF 3 - failed > 0 THEN 3 - failed ELSE 0

(* NOW()+INTERVAL '15 minutes' *)
ExpiresAt(t) == t + TOKEN_MINUTES

(* The used_at test is missing *)
TokenRejected_IgnoreUse(token, t) == token.expires_at < t

(* The expiry test is missing *)
TokenRejected_IgnoreExpiry(token, t) == token.used_at # NULL

(* token["used_at"] or token["expires_at"] < datetime.now(timezone.utc) *)
TokenRejected(token, t) == token.used_at # NULL \/ token.expires_at < t

(* The contact row is stored under the caller's actor_hash *)
ContactActor_Caller(token, caller) == caller

(* the actor_hash stored with the contact row: token["actor_hash"] *)
ContactActor(token, caller) == token.actor_hash

(* The reset leaves contact_submitted as it is *)
ResetState_KeepSubmitted(state) ==
    [state EXCEPT !.winner_actor_hash = NULL, !.winner_claimed_at = NULL]

(* The reset leaves the winner as it is *)
ResetState_KeepWinner(state) == [state EXCEPT !.contact_submitted = FALSE]

(* UPDATE contest_state SET winner_actor_hash = NULL, ... of admin_reset *)
ResetState(state) == [winner_actor_hash |-> NULL, winner_claimed_at |-> NULL, contact_submitted |-> FALSE]

(* Any key is accepted *)
KeyOk_Any(key) == TRUE

(* not (not key or key != ADMIN_RESET_KEY) *)
KeyOk(key) == key = "good"

(* The winning UPDATE also marks the contact as submitted *)
WinnerRow_Submitted(state, a, t) ==
    [winner_actor_hash |-> a, winner_claimed_at |-> t, contact_submitted |-> TRUE]

(* UPDATE contest_state SET winner_actor_hash=$1, winner_claimed_at=NOW() WHERE id=1 *)
WinnerRow(state, a, t) == [state EXCEPT !.winner_actor_hash = a, !.winner_claimed_at = t]

(* closed = bool(row and row.get("winner_actor_hash")) of GET /api/status *)
StatusClosed(d) == d.contest_state.winner_actor_hash # NULL

----------------------------------------------------------------------------
TypeOK ==
    /\ TEST_MODE \in BOOLEAN
    /\ now \in 0..(MaxTicks * TickMinutes)
    /\ pc \in [Procs -> STRING]
    /\ nreq \in 0..MaxReqs
    /\ nextTok \in 1..(MaxTokens + 1)
    /\ lk.cs \in 0..NProcs

Init ==
    /\ TEST_MODE = TRUE
    /\ now = 0
    /\ db = InitDb
    /\ lk = NoLk
    /\ pc = [p \in Procs |-> "idle"]
    /\ req = [p \in Procs |-> NoReq]
    /\ loc = [p \in Procs |-> NoLoc]
    /\ tx = [p \in Procs |-> NoTx]
    /\ out = NoOut
    /\ nreq = 0
    /\ nextTok = 1
    /\ nextContact = 1
    /\ hist = [wrongSeq |-> [a \in Actors |-> <<>>],
               ok200 |-> [t \in Tokens |-> 0],
               inserted |-> [t \in Tokens |-> 0],
               issued |-> {},
               voided |-> {}]

(* A request arrives and is served by the first free handler *)
CanStart(p) ==
    /\ pc[p] = "idle"
    /\ \A q \in Procs : q < p => pc[q] # "idle"
    /\ nreq < MaxReqs

(* The handler serving request rq returns r; rollback or commit has released its row locks. *)
(* out is the response sent by the step just taken, with its request (NoOut when the step  *)
(* sent none).                                                                             *)
Reply(p, rq, r) ==
    /\ pc' = [pc EXCEPT ![p] = "idle"]
    /\ out' = [req |-> rq, resp |-> r]
    /\ loc' = [loc EXCEPT ![p] = NoLoc]
    /\ tx' = [tx EXCEPT ![p] = NoTx]
    /\ lk' = Release(lk, p)

Return(p, r) == Reply(p, req[p], r) /\ req' = [req EXCEPT ![p] = NoReq]

(* The first three answers to an actor's incorrect codes since it had no row *)
Note(h, a, r) ==
    IF Len(h.wrongSeq[a]) < 3
    THEN [h EXCEPT !.wrongSeq[a] = Append(@, <<r.status, r.remaining>>)]
    ELSE h

----------------------------------------------------------------------------
(* POST /api/enter-code *)

(* lines 176-184: strip, format check, actor hash, begin transaction *)
EnterCode(p, a, c) ==
    LET code == Strip(c)
        rq == [NoReq EXCEPT !.op = "enter", !.actor = a, !.code = code]
    IN  /\ CanStart(p)
        /\ Verify(code) => nextTok <= MaxTokens
        /\ nreq' = nreq + 1
        /\ IF ~CodeFormatOk(code)
           THEN /\ Reply(p, [rq EXCEPT !.actor = NULL], Response(400, "invalid_format"))
                /\ UNCHANGED <<req, nextTok>>
           ELSE /\ pc' = [pc EXCEPT ![p] = "ec_state"]
                /\ req' = [req EXCEPT ![p] = rq]
                /\ loc' = [loc EXCEPT ![p] = [NoLoc EXCEPT !.txStart = now,
                              !.rawtok = IF Verify(code) THEN nextTok ELSE NULL]]
                /\ nextTok' = IF Verify(code) THEN nextTok + 1 ELSE nextTok
                /\ UNCHANGED <<tx, lk>>
                /\ out' = NoOut
        /\ UNCHANGED <<TEST_MODE, now, db, nextContact, hist>>

(* The state row is read without FOR UPDATE *)
StateRowFree_NoWait(p) == TRUE

(* line 186: SELECT ... FROM contest_state WHERE id=1 FOR UPDATE waits for the row lock *)
StateRowFree(p) == Free(lk.cs, p)

(* lines 186-189 *)
EcSelectState(p) ==
    /\ pc[p] = "ec_state"
    /\ StateRowFree(p)
    /\ IF AlreadyWon(db.contest_state)
       THEN /\ Return(p, Response(409, "already_won"))
            /\ db' = Rollback(db, tx[p])
       ELSE /\ lk' = [lk EXCEPT !.cs = p]
            /\ pc' = [pc EXCEPT ![p] = "ec_lock"]
            /\ UNCHANGED <<db, req, loc, tx>>
            /\ out' = NoOut
    /\ UNCHANGED <<TEST_MODE, now, nreq, nextTok, nextContact, hist>>

(* lines 191-210: lock the actor's throttle row, read the clock, check the block, verify *)
EcSelectLock(p) ==
    LET a == req[p].actor
        lock == db.attempt_locks[a]
    IN  /\ pc[p] = "ec_lock"
        /\ lock.exists => Free(lk.al[a], p)
        /\ IF IsBlocked(lock, now)
           THEN /\ Return(p, [Response(429, "blocked") EXCEPT !.blockedUntil = lock.blocked_until])
                /\ db' = Rollback(db, tx[p])
                /\ hist' = IF Verify(req[p].code) THEN hist
                           ELSE Note(hist, a, Response(429, "blocked"))
           ELSE /\ lk' = IF lock.exists THEN [lk EXCEPT !.al[a] = p] ELSE lk
                /\ loc' = [loc EXCEPT ![p].lock = lock, ![p].tnow = now]
                /\ pc' = [pc EXCEPT ![p] = IF Verify(req[p].code) THEN "ec_win1" ELSE "ec_fail"]
                /\ UNCHANGED <<db, req, tx, hist>>
                /\ out' = NoOut
        /\ UNCHANGED <<TEST_MODE, now, nreq, nextTok, nextContact>>

(* lines 211-219: INSERT or UPDATE the incremented failed_count *)
Recorded(lock, failed) ==
    [exists |-> TRUE, failed_count |-> failed, blocked_until |-> lock.blocked_until]

(* The block is set and the count is left as it is *)
Imposed_KeepCount(row, t) == [row EXCEPT !.blocked_until = BlockedUntil(t)]

(* lines 221-227: UPDATE ... SET failed_count=0, blocked_until=now+BLOCK_MINUTES *)
Imposed(row, t) == [row EXCEPT !.failed_count = 0, !.blocked_until = BlockedUntil(t)]

(* lines 212-215: the INSERT of a request that read no row meets a row of the same actor: *)
(* a committed one raises a unique violation, an uncommitted one makes it wait            *)
InsertClash(p, a) ==
    /\ ~loc[p].lock.exists
    /\ \/ db.attempt_locks[a].exists
       \/ \E q \in Procs \ {p} : tx[q].al[a].op = "put"

(* lines 211-227: the writes of a wrong guess *)
EcRecordFailure(p) ==
    LET a == req[p].actor
        lock == loc[p].lock
        failed == NewFailed(lock)
    IN  /\ pc[p] = "ec_fail"
        /\ lock.exists => Free(lk.al[a], p)
        /\ ~InsertClash(p, a)
        /\ tx' = [tx EXCEPT ![p].al[a] =
                    [op |-> "put",
                     row |-> IF ReachedThreshold(failed)
                             THEN Imposed(Recorded(lock, failed), loc[p].tnow)
                             ELSE Recorded(lock, failed)]]
        /\ loc' = [loc EXCEPT ![p].failed = failed]
        /\ pc' = [pc EXCEPT ![p] = IF ReachedThreshold(failed) THEN "ec_commit_blocked" ELSE "ec_commit_wrong"]
        /\ UNCHANGED <<TEST_MODE, now, db, lk, req, nreq, nextTok, nextContact, hist>>
        /\ out' = NoOut

(* lines 229-233: commit, 429 blocked *)
EcCommitBlocked(p) ==
    LET r == [Response(429, "blocked") EXCEPT !.blockedUntil = BlockedUntil(loc[p].tnow)]
    IN  /\ pc[p] = "ec_commit_blocked"
        /\ db' = Commit(db, tx[p])
        /\ Return(p, r)
        /\ hist' = Note(hist, req[p].actor, r)
        /\ UNCHANGED <<TEST_MODE, now, nreq, nextTok, nextContact>>

(* lines 235-237: commit, 401 wrong_code *)
EcCommitWrong(p) ==
    LET r == [Response(401, "wrong_code") EXCEPT !.remaining = Remaining(loc[p].failed)]
    IN  /\ pc[p] = "ec_commit_wrong"
        /\ db' = Commit(db, tx[p])
        /\ Return(p, r)
        /\ hist' = Note(hist, req[p].actor, r)
        /\ UNCHANGED <<TEST_MODE, now, nreq, nextTok, nextContact>>

(* lines 243-246: UPDATE contest_state SET winner_actor_hash=$1, winner_claimed_at=NOW() *)
EcSetWinner(p) ==
    /\ pc[p] = "ec_win1"
    /\ Free(lk.cs, p)
    /\ lk' = [lk EXCEPT !.cs = p]
    /\ tx' = [tx EXCEPT ![p].cs =
                [op |-> "put",
                 row |-> WinnerRow(db.contest_state, req[p].actor, loc[p].txStart)]]
    /\ pc' = [pc EXCEPT ![p] = "ec_win2"]
    /\ UNCHANGED <<TEST_MODE, now, db, req, loc, nreq, nextTok, nextContact, hist>>
    /\ out' = NoOut

(* lines 248-252: INSERT INTO winner_claim_tokens ... NOW()+INTERVAL '15 minutes' *)
EcInsertToken(p) ==
    /\ pc[p] = "ec_win2"
    /\ tx' = [tx EXCEPT ![p].tok[loc[p].rawtok] =
                [op |-> "put",
                 row |-> [exists |-> TRUE, actor_hash |-> req[p].actor,
                          expires_at |-> ExpiresAt(loc[p].txStart), used_at |-> NULL]]]
    /\ pc' = [pc EXCEPT ![p] = "ec_commit_win"]
    /\ UNCHANGED <<TEST_MODE, now, db, lk, req, loc, nreq, nextTok, nextContact, hist>>
    /\ out' = NoOut

(* lines 254-255: commit, 200 with the raw token *)
EcCommitWin(p) ==
    /\ pc[p] = "ec_commit_win"
    /\ db' = Commit(db, tx[p])
    /\ Return(p, [Response(200, "ok") EXCEPT !.claimToken = loc[p].rawtok])
    /\ hist' = [hist EXCEPT !.issued = @ \cup {loc[p].rawtok}]
    /\ UNCHANGED <<TEST_MODE, now, nreq, nextTok, nextContact>>

----------------------------------------------------------------------------
(* POST /api/submit-contact *)

(* The tokens a caller can present: one handed out in a 200 response, or a forged one *)
Forged == 0
Presentable == hist.issued \cup {Forged}

(* SELECT ... FROM winner_claim_tokens WHERE token_hash=$1 on the committed rows *)
TokenRow(d, t) == IF t \in Tokens THEN d.winner_claim_tokens[t] ELSE NoTokenRow

(* lines 263-271: payload check, token digest, begin transaction *)
SubmitContact(p, a, t, valid) ==
    LET rq == [NoReq EXCEPT !.op = "contact", !.actor = a, !.token = t, !.valid = valid]
    IN  /\ CanStart(p)
        /\ t \in Presentable
        /\ nreq' = nreq + 1
        /\ IF ~valid
           THEN /\ Reply(p, [rq EXCEPT !.actor = NULL, !.token = NULL], Response(400, "invalid_payload"))
                /\ UNCHANGED req
           ELSE /\ pc' = [pc EXCEPT ![p] = "sc_select"]
                /\ req' = [req EXCEPT ![p] = rq]
                /\ loc' = [loc EXCEPT ![p] = [NoLoc EXCEPT !.txStart = now]]
                /\ UNCHANGED <<tx, lk>>
                /\ out' = NoOut
        /\ UNCHANGED <<TEST_MODE, now, db, nextTok, nextContact, hist>>

(* lines 273-283: SELECT ... FROM winner_claim_tokens WHERE token_hash=$1 FOR UPDATE *)
ScSelectToken(p) ==
    LET t == req[p].token
        token == TokenRow(db, t)
    IN  /\ pc[p] = "sc_select"
        /\ token.exists => Free(lk.tok[t], p)
        /\ IF ~token.exists \/ TokenRejected(token, now)
           THEN /\ Return(p, Response(401, "unauthorized"))
                /\ db' = Rollback(db, tx[p])
           ELSE /\ lk' = [lk EXCEPT !.tok[t] = p]
                /\ loc' = [loc EXCEPT ![p].token = token]
                /\ pc' = [pc EXCEPT ![p] = "sc_insert"]
                /\ UNCHANGED <<db, req, tx>>
                /\ out' = NoOut
        /\ UNCHANGED <<TEST_MODE, now, nreq, nextTok, nextContact, hist>>

(* lines 285-291: INSERT INTO winner_contacts *)
ScInsertContact(p) ==
    /\ pc[p] = "sc_insert"
    /\ tx' = [tx EXCEPT ![p].ins = @ \cup
                {[id |-> nextContact, actor_hash |-> ContactActor(loc[p].token, req[p].actor)]}]
    /\ nextContact' = nextContact + 1
    /\ pc' = [pc EXCEPT ![p] = "sc_used"]
    /\ UNCHANGED <<TEST_MODE, now, db, lk, req, loc, nreq, nextTok, hist>>
    /\ out' = NoOut

(* line 293: UPDATE winner_claim_tokens SET used_at=NOW() *)
ScMarkUsed(p) ==
    LET t == req[p].token
    IN  /\ pc[p] = "sc_used"
        /\ Free(lk.tok[t], p)
        /\ lk' = [lk EXCEPT !.tok[t] = p]
        /\ tx' = [tx EXCEPT ![p].tok[t] =
                    [op |-> "put",
                     row |-> [db.winner_claim_tokens[t] EXCEPT !.used_at = loc[p].txStart]]]
        /\ pc' = [pc EXCEPT ![p] = "sc_cs"]
        /\ UNCHANGED <<TEST_MODE, now, db, req, loc, nreq, nextTok, nextContact, hist>>
        /\ out' = NoOut

(* line 294: UPDATE contest_state SET contact_submitted=true waits for the row lock *)
ScSetSubmitted(p) ==
    /\ pc[p] = "sc_cs"
    /\ Free(lk.cs, p)
    /\ lk' = [lk EXCEPT !.cs = p]
    /\ tx' = [tx EXCEPT ![p].cs =
                [op |-> "put", row |-> [db.contest_state EXCEPT !.contact_submitted = TRUE]]]
    /\ pc' = [pc EXCEPT ![p] = "sc_commit"]
    /\ UNCHANGED <<TEST_MODE, now, db, req, loc, nreq, nextTok, nextContact, hist>>
    /\ out' = NoOut

(* line 295: commit; the row locks are released before the notification *)
ScCommit(p) ==
    /\ pc[p] = "sc_commit"
    /\ db' = Commit(db, tx[p])
    /\ lk' = Release(lk, p)
    /\ tx' = [tx EXCEPT ![p] = NoTx]
    /\ loc' = [loc EXCEPT ![p] = NoLoc]
    /\ pc' = [pc EXCEPT ![p] = "sc_email"]
    /\ hist' = [hist EXCEPT !.inserted[req[p].token] = @ + Cardinality(tx[p].ins)]
    /\ UNCHANGED <<TEST_MODE, now, req, nreq, nextTok, nextContact>>
    /\ out' = NoOut

(* lines 297-315: best-effort notification; sent is whether SMTP is configured and the send succeeded *)
ScNotify(p, sent) ==
    /\ pc[p] = "sc_email"
    /\ Return(p, [Response(200, "ok") EXCEPT !.emailSent = sent])
    /\ hist' = [hist EXCEPT !.ok200[req[p].token] = @ + 1]
    /\ UNCHANGED <<TEST_MODE, now, db, nreq, nextTok, nextContact>>

----------------------------------------------------------------------------
(* POST /api/admin/reset *)

(* lines 323-332: test-mode and key checks, begin transaction *)
AdminReset(p, key) ==
    LET rq == [NoReq EXCEPT !.op = "reset", !.key = key]
    IN  /\ CanStart(p)
        /\ nreq' = nreq + 1
        /\ IF ~TEST_MODE
           THEN /\ Reply(p, rq, Response(404, "not_found"))
                /\ UNCHANGED req
           ELSE IF ~KeyOk(key)
           THEN /\ Reply(p, rq, Response(401, "unauthorized"))
                /\ UNCHANGED req
           ELSE /\ pc' = [pc EXCEPT ![p] = "ar_cs"]
                /\ req' = [req EXCEPT ![p] = rq]
                /\ loc' = [loc EXCEPT ![p] = [NoLoc EXCEPT !.txStart = now]]
                /\ UNCHANGED <<tx, lk>>
                /\ out' = NoOut
        /\ UNCHANGED <<TEST_MODE, now, db, nextTok, nextContact, hist>>

(* lines 334-336: UPDATE contest_state SET winner_actor_hash = NULL, ... *)
ArResetState(p) ==
    /\ pc[p] = "ar_cs"
    /\ Free(lk.cs, p)
    /\ lk' = [lk EXCEPT !.cs = p]
    /\ tx' = [tx EXCEPT ![p].cs = [op |-> "put", row |-> ResetState(db.contest_state)]]
    /\ pc' = [pc EXCEPT ![p] = "ar_tok"]
    /\ UNCHANGED <<TEST_MODE, now, db, req, loc, nreq, nextTok, nextContact, hist>>
    /\ out' = NoOut

(* line 337: DELETE FROM winner_claim_tokens locks every committed row *)
ArDeleteTokens(p) ==
    LET rows == {t \in Tokens : db.winner_claim_tokens[t].exists}
    IN  /\ pc[p] = "ar_tok"
        /\ \A t \in rows : Free(lk.tok[t], p)
        /\ lk' = [lk EXCEPT !.tok = [t \in Tokens |-> IF t \in rows THEN p ELSE lk.tok[t]]]
        /\ tx' = [tx EXCEPT ![p].tok = [t \in Tokens |->
                    IF t \in rows THEN [op |-> "del", row |-> NoTokenRow] ELSE tx[p].tok[t]]]
        /\ pc' = [pc EXCEPT ![p] = "ar_con"]
        /\ UNCHANGED <<TEST_MODE, now, db, req, loc, nreq, nextTok, nextContact, hist>>
        /\ out' = NoOut

(* line 338: DELETE FROM winner_contacts *)
ArDeleteContacts(p) ==
    /\ pc[p] = "ar_con"
    /\ tx' = [tx EXCEPT ![p].del = {c.id : c \in db.winner_contacts}]
    /\ pc' = [pc EXCEPT ![p] = "ar_al"]
    /\ UNCHANGED <<TEST_MODE, now, db, lk, req, loc, nreq, nextTok, nextContact, hist>>
    /\ out' = NoOut

(* line 339: DELETE FROM attempt_locks locks every committed row *)
ArDeleteLocks(p) ==
    LET rows == {a \in Actors : db.attempt_locks[a].exists}
    IN  /\ pc[p] = "ar_al"
        /\ \A a \in rows : Free(lk.al[a], p)
        /\ lk' = [lk EXCEPT !.al = [a \in Actors |-> IF a \in rows THEN p ELSE lk.al[a]]]
        /\ tx' = [tx EXCEPT ![p].al = [a \in Actors |->
                    IF a \in rows THEN [op |-> "del", row |-> NoLockRow] ELSE tx[p].al[a]]]
        /\ pc' = [pc EXCEPT ![p] = "ar_commit"]
        /\ UNCHANGED <<TEST_MODE, now, db, req, loc, nreq, nextTok, nextContact, hist>>
        /\ out' = NoOut

(* lines 340-341: commit, 200 reset *)
ArCommit(p) ==
    /\ pc[p] = "ar_commit"
    /\ db' = Commit(db, tx[p])
    /\ Return(p, Response(200, "reset"))
    /\ hist' = [hist EXCEPT !.wrongSeq = [a \in Actors |-> <<>>],
                            !.voided = @ \cup {t \in Tokens : tx[p].tok[t].op = "del"}]
    /\ UNCHANGED <<TEST_MODE, now, nreq, nextTok, nextContact>>

----------------------------------------------------------------------------
(* The statements between tr.start() and the end of tr.commit() *)
InTransaction ==
    {"ec_state", "ec_lock", "ec_fail", "ec_commit_blocked", "ec_commit_wrong",
     "ec_win1", "ec_win2", "ec_commit_win",
     "sc_select", "sc_insert", "sc_used", "sc_cs", "sc_commit",
     "ar_cs", "ar_tok", "ar_con", "ar_al", "ar_commit"}

(* except Exception: tr.rollback(), 500 server_error (lines 256-258, 316-318, 342-344). *)
(* The statement p is about to run raises: a datastore error, or the deadlock victim.   *)
Fail(p) ==
    /\ pc[p] \in InTransaction
    /\ db' = Rollback(db, tx[p])
    /\ Reply(p, [NoReq EXCEPT !.op = req[p].op], Response(500, "server_error"))
    /\ req' = [req EXCEPT ![p] = NoReq]
    /\ UNCHANGED <<TEST_MODE, now, nreq, nextTok, nextContact, hist>>

(* Wall-clock time passes *)
Tick ==
    /\ now + TickMinutes <= MaxTicks * TickMinutes
    /\ now' = now + TickMinutes
    /\ UNCHANGED <<TEST_MODE, db, lk, pc, req, loc, tx, nreq, nextTok, nextContact, hist>>
    /\ out' = NoOut

Next ==
    \/ \E p \in Procs, a \in Actors, c \in Codes : EnterCode(p, a, c)
    \/ \E p \in Procs : EcSelectState(p)
    \/ \E p \in Procs : EcSelectLock(p)
    \/ \E p \in Procs : EcRecordFailure(p)
    \/ \E p \in Procs : EcCommitBlocked(p)
    \/ \E p \in Procs : EcCommitWrong(p)
    \/ \E p \in Procs : EcSetWinner(p)
    \/ \E p \in Procs : EcInsertToken(p)
    \/ \E p \in Procs : EcCommitWin(p)
    \/ \E p \in Procs, a \in Actors, t \in Tokens \cup {Forged}, valid \in BOOLEAN : SubmitContact(p, a, t, valid)
    \/ \E p \in Procs : ScSelectToken(p)
    \/ \E p \in Procs : ScInsertContact(p)
    \/ \E p \in Procs : ScMarkUsed(p)
    \/ \E p \in Procs : ScSetSubmitted(p)
    \/ \E p \in Procs : ScCommit(p)
    \/ \E p \in Procs, sent \in BOOLEAN : ScNotify(p, sent)
    \/ \E p \in Procs, key \in Keys : AdminReset(p, key)
    \/ \E p \in Procs : ArResetState(p)
    \/ \E p \in Procs : ArDeleteTokens(p)
    \/ \E p \in Procs : ArDeleteContacts(p)
    \/ \E p \in Procs : ArDeleteLocks(p)
    \/ \E p \in Procs : ArCommit(p)
    \/ \E p \in Procs : Fail(p)
    \/ Tick

Spec == Init /\ [][Next]_vars

(* The same program deployed with test mode on or off *)
InitAny ==
    /\ TEST_MODE \in BOOLEAN
    /\ now = 0
    /\ db = InitDb
    /\ lk = NoLk
    /\ pc = [p \in Procs |-> "idle"]
    /\ req = [p \in Procs |-> NoReq]
    /\ loc = [p \in Procs |-> NoLoc]
    /\ tx = [p \in Procs |-> NoTx]
    /\ out = NoOut
    /\ nreq = 0
    /\ nextTok = 1
    /\ nextContact = 1
    /\ hist = [wrongSeq |-> [a \in Actors |-> <<>>],
               ok200 |-> [t \in Tokens |-> 0],
               inserted |-> [t \in Tokens |-> 0],
               issued |-> {},
               voided |-> {}]

SpecAny == InitAny /\ [][Next]_vars

----------------------------------------------------------------------------
(* Vocabulary of the properties *)

Winner(d) == d.contest_state.winner_actor_hash

(* The response sent by the step just taken *)
Status(o) == o.resp.status
EnterReply(o) == o.req.op = "enter" /\ o.req.actor # NULL /\ Status(o) # 500
RightCode(o) == o.req.code = SecretCode
ResetDone(o) == o.req.op = "reset" /\ Status(o) = 200

(* The committed throttle row of actor a carries a block that has not run out at time t *)
BlockedAt(d, a, t) ==
    /\ d.attempt_locks[a].exists
    /\ d.attempt_locks[a].blocked_until # NULL
    /\ d.attempt_locks[a].blocked_until > t

(* Request p leaves the statement it was at *)
Moves(p) == pc'[p] # pc[p]

----------------------------------------------------------------------------
(* C1: once winner_actor_hash is set, no step changes it to another value or *)
(* to null except the commit of a successful admin_reset.                    *)
Thm_C1 ==
    [][(Winner(db) # NULL /\ Winner(db') # Winner(db)) => ResetDone(out')]_vars

(* C1 witness: the winner is set and another actor's later enter_code has been answered *)
Wit_C1 ==
    /\ Winner(db) # NULL
    /\ out.req.op = "enter"
    /\ Status(out) = 409
    /\ out.req.actor # Winner(db)

(* C2 as stated: every enter_code carrying the correct code either makes the *)
(* contest Won (200) or observes 409 already_won.                            *)
Orig_C2 ==
    [][(EnterReply(out') /\ RightCode(out'))
        => \/ Status(out') = 200 /\ Winner(db) = NULL /\ Winner(db') = out'.req.actor
           \/ Status(out') = 409]_vars

(* C2 amended: a correct-code enter_code served while the contest is Open and  *)
(* its actor is not blocked makes the contest Won for that actor and gets 200  *)
(* with the claim token of the one token row it inserts; served once a winner  *)
(* is set it observes 409 and changes nothing; served while Open from an actor *)
(* whose block has not run out it observes 429 and changes nothing.  So of     *)
(* concurrent correct submissions by unblocked actors exactly one wins.        *)
Thm_C2 ==
    [][(EnterReply(out') /\ RightCode(out'))
        => LET a == out'.req.actor
           IN  IF Winner(db) # NULL
               THEN Status(out') = 409 /\ db' = db
               ELSE IF BlockedAt(db, a, now)
               THEN Status(out') = 429 /\ db' = db
               ELSE /\ Status(out') = 200
                    /\ Winner(db') = a
                    /\ out'.resp.claimToken \in Tokens
                    /\ ~db.winner_claim_tokens[out'.resp.claimToken].exists
                    /\ db'.winner_claim_tokens[out'.resp.claimToken].actor_hash = a]_vars

(* C2 witness: a correct submission has just won while another actor's correct *)
(* submission, sent before that commit, is still waiting for the state row     *)
Wit_C2 ==
    /\ out.req.op = "enter"
    /\ Status(out) = 200
    /\ \E q \in Procs :
          /\ pc[q] = "ec_state"
          /\ req[q].code = SecretCode
          /\ req[q].actor # out.req.actor

(* C3: the first three answers to an actor's incorrect codes, counted from a   *)
(* state where it has no throttle row and while the contest is Open, are       *)
(* 401 remaining=2, 401 remaining=1, 429 blocked; each is committed with       *)
(* failed_count 1, 2 and then 0 together with blocked_until = now + BLOCK_MINUTES *)
Thm_C3 ==
    [][\A a \in Actors :
          LET n == Len(hist'.wrongSeq[a])
              row == db'.attempt_locks[a]
          IN  (n > Len(hist.wrongSeq[a])) =>
                /\ out'.req.actor = a
                /\ n = 1 => /\ Status(out') = 401 /\ out'.resp.remaining = 2
                            /\ row = [exists |-> TRUE, failed_count |-> 1, blocked_until |-> NULL]
                /\ n = 2 => /\ Status(out') = 401 /\ out'.resp.remaining = 1
                            /\ row = [exists |-> TRUE, failed_count |-> 2, blocked_until |-> NULL]
                /\ n = 3 => /\ Status(out') = 429
                            /\ row.exists /\ row.failed_count = 0
                            /\ row.blocked_until = out'.resp.blockedUntil
                            /\ \E p \in Procs : /\ pc[p] = "ec_commit_blocked" /\ Moves(p)
                                                /\ row.blocked_until = loc[p].tnow + BLOCK_MINUTES
                                                /\ row.blocked_until >= loc[p].txStart + BLOCK_MINUTES
                                                /\ row.blocked_until <= now + BLOCK_MINUTES]_vars

(* C3 witness: an actor's third incorrect code has just been answered while the *)
(* other actor's incorrect codes were answered in between                       *)
Wit_C3 ==
    \E a \in Actors :
        /\ Len(hist.wrongSeq[a]) = 3
        /\ out.req.actor = a
        /\ Status(out) = 429
        /\ \E b \in Actors \ {a} : Len(hist.wrongSeq[b]) > 0

(* C4 as stated: every enter_code of an actor whose block has not run out is *)
(* answered 429 blocked and leaves that actor's throttle row unchanged       *)
Orig_C4 ==
    [][(EnterReply(out') /\ BlockedAt(db, out'.req.actor, now))
        => /\ Status(out') = 429
           /\ db'.attempt_locks[out'.req.actor] = db.attempt_locks[out'.req.actor]]_vars

(* C4 amended: every well-formed enter_code of an actor whose block has not   *)
(* run out, with a correct code or not, is answered 429 blocked with that     *)
(* blockedUntil while the contest is Open and 409 already_won once a winner   *)
(* is set; either way the committed state, that actor's failed_count and      *)
(* blocked_until included, is unchanged                                      *)
Thm_C4 ==
    [][(EnterReply(out') /\ BlockedAt(db, out'.req.actor, now))
        => /\ db' = db
           /\ IF Winner(db) = NULL
              THEN /\ Status(out') = 429
                   /\ out'.resp.blockedUntil = db.attempt_locks[out'.req.actor].blocked_until
              ELSE Status(out') = 409]_vars

(* C4 witness: a blocked actor's correct code has just been answered 429 *)
Wit_C4 ==
    /\ out.req.op = "enter"
    /\ RightCode(out)
    /\ Status(out) = 429
    /\ BlockedAt(db, out.req.actor, now)
    /\ Len(hist.wrongSeq[out.req.actor]) = 3

(* C5: for each token at most one submit_contact is answered 200 and at most *)
(* one winner_contacts row is ever inserted; every other call with a valid   *)
(* payload is answered 401                                                   *)
Thm_C5 ==
    [][/\ \A t \in Tokens : hist'.ok200[t] <= 1 /\ hist'.inserted[t] <= 1
       /\ (out'.req.op = "contact" /\ out'.req.valid /\ Status(out') # 500)
            => /\ Status(out') \in {200, 401}
               /\ (out'.req.token \in Tokens /\ hist.ok200[out'.req.token] > 0)
                    => Status(out') = 401]_vars

(* C5 witness: the replay of a redeemed, unexpired token has just been answered 401 *)
Wit_C5 ==
    /\ out.req.op = "contact"
    /\ Status(out) = 401
    /\ out.req.token \in Tokens
    /\ hist.ok200[out.req.token] = 1
    /\ db.winner_claim_tokens[out.req.token].used_at # NULL
    /\ db.winner_claim_tokens[out.req.token].expires_at >= now

(* C6: a submit_contact that arrives strictly after the expires_at of the token *)
(* it presents is answered 401 at its token lookup and changes no state, used   *)
(* or not; expires_at is the winning transaction's NOW() + 15 minutes           *)
Thm_C6 ==
    [][/\ \A p \in Procs :
            LET t == req[p].token
            IN  (/\ pc[p] = "sc_select" /\ Moves(p)
                 /\ t \in Tokens
                 /\ db.winner_claim_tokens[t].exists
                 /\ loc[p].txStart > db.winner_claim_tokens[t].expires_at)
                => /\ pc'[p] = "idle"
                   /\ Status(out') \in {401, 500}
                   /\ db' = db
       /\ \A t \in Tokens :
            (db'.winner_claim_tokens[t].exists /\ ~db.winner_claim_tokens[t].exists)
              => \E p \in Procs : /\ pc[p] = "ec_commit_win"
                                  /\ db'.winner_claim_tokens[t].expires_at = loc[p].txStart + 15]_vars

(* C6 witness: an unused token presented after its expiry has just been answered 401 *)
Wit_C6 ==
    /\ out.req.op = "contact"
    /\ Status(out) = 401
    /\ out.req.token \in Tokens
    /\ db.winner_claim_tokens[out.req.token].exists
    /\ db.winner_claim_tokens[out.req.token].used_at = NULL
    /\ db.winner_claim_tokens[out.req.token].expires_at < now

(* C7 as stated: a submit_contact whose caller is not the actor bound to the *)
(* presented token is answered 401                                          *)
Orig_C7 ==
    [][(/\ out'.req.op = "contact" /\ Status(out') # 500
        /\ out'.req.token \in Tokens
        /\ db.winner_claim_tokens[out'.req.token].exists
        /\ db.winner_claim_tokens[out'.req.token].actor_hash # out'.req.actor)
        => Status(out') = 401]_vars

(* C7 amended: submit_contact does not compare the caller with the token's     *)
(* actor_hash: a token whose row exists is refused at the lookup only when it  *)
(* is used or expired, whoever presents it, and the contact row a redemption   *)
(* inserts carries the actor_hash bound to the token, which is the winner      *)
Thm_C7 ==
    [][\A p \in Procs :
          LET t == req[p].token
          IN  /\ (/\ pc[p] = "sc_select" /\ Moves(p) /\ Status(out') # 500
                  /\ t \in Tokens /\ db.winner_claim_tokens[t].exists)
                 => (Status(out') = 401
                       <=> \/ db.winner_claim_tokens[t].used_at # NULL
                           \/ db.winner_claim_tokens[t].expires_at < now)
              /\ (pc[p] = "sc_commit" /\ pc'[p] = "sc_email")
                 => /\ db'.winner_contacts # db.winner_contacts
                    /\ \A c \in db'.winner_contacts \ db.winner_contacts :
                          /\ c.actor_hash = db.winner_claim_tokens[t].actor_hash
                          /\ c.actor_hash = Winner(db)]_vars

(* C7 witness: a caller other than the winner has just redeemed the winner's token *)
Wit_C7 ==
    /\ out.req.op = "contact"
    /\ Status(out) = 200
    /\ db.winner_claim_tokens[out.req.token].exists
    /\ db.winner_claim_tokens[out.req.token].actor_hash # out.req.actor
    /\ \E c \in db.winner_contacts : c.actor_hash = Winner(db)

(* C8: the commit of a successful admin_reset yields the initial state from   *)
(* any state: status reports closed=false, no actor is blocked, and a token   *)
(* whose row a reset deleted is answered 401 whenever it is presented later   *)
Thm_C8 ==
    [][/\ ResetDone(out')
          => /\ db' = InitDb
             /\ ~StatusClosed(db')
             /\ \A a \in Actors : ~BlockedAt(db', a, now)
             /\ {t \in Tokens : db.winner_claim_tokens[t].exists} \subseteq hist'.voided
       /\ \A p \in Procs :
            (pc[p] = "sc_select" /\ Moves(p) /\ req[p].token \in hist.voided)
              => pc'[p] = "idle" /\ Status(out') \in {401, 500} /\ db' = db
       /\ \A t \in hist'.voided : ~db'.winner_claim_tokens[t].exists]_vars

(* C8 witness: a token issued before a reset has just been answered 401 after it *)
Wit_C8 ==
    /\ out.req.op = "contact"
    /\ Status(out) = 401
    /\ out.req.token \in hist.voided
    /\ db = InitDb

(* The state of the contest *)
Phase(d) ==
    IF d.contest_state.contact_submitted
    THEN IF Winner(d) # NULL THEN "ContactCollected" ELSE "Invalid"
    ELSE IF Winner(d) # NULL THEN "Won" ELSE "Open"

(* C9: contact_submitted implies a winner; the contest moves Open -> Won only *)
(* by a winning enter_code, Won -> ContactCollected only by the commit of a   *)
(* redemption, and to Open only, and always, by a successful admin_reset      *)
Thm_C9 ==
    [][/\ Phase(db') # "Invalid"
       /\ ResetDone(out') => Phase(db') = "Open"
       /\ Phase(db') # Phase(db)
            => \/ /\ Phase(db) = "Open" /\ Phase(db') = "Won"
                  /\ out'.req.op = "enter" /\ Status(out') = 200
               \/ /\ Phase(db) = "Won" /\ Phase(db') = "ContactCollected"
                  /\ \E p \in Procs : pc[p] = "sc_commit" /\ pc'[p] = "sc_email"
               \/ /\ Phase(db') = "Open"
                  /\ ResetDone(out')]_vars

(* C9 witness: a redemption has just committed and the contest is ContactCollected *)
Wit_C9 ==
    /\ Phase(db) = "ContactCollected"
    /\ \E p \in Procs : pc[p] = "sc_email"

(* The parts of one committed transaction are all there or none is *)
Whole(d) ==
    /\ Winner(d) # NULL
         <=> \E t \in Tokens : /\ d.winner_claim_tokens[t].exists
                               /\ d.winner_claim_tokens[t].actor_hash = Winner(d)
    /\ Winner(d) # NULL <=> d.contest_state.winner_claimed_at # NULL
    /\ d.contest_state.contact_submitted <=> d.winner_contacts # {}
    /\ d.winner_contacts # {}
         <=> \E t \in Tokens : /\ d.winner_claim_tokens[t].exists
                               /\ d.winner_claim_tokens[t].used_at # NULL
    /\ \A a \in Actors : d.attempt_locks[a].failed_count < FAIL_THRESHOLD

(* C10: a request that fails inside its transaction is answered 500 and leaves *)
(* the committed state as it was; no committed state holds part of a           *)
(* transaction (a winner without its token row, a contact row without the      *)
(* token marked used and contact_submitted, a failed_count of 3)               *)
Thm_C10 ==
    [][/\ Status(out') = 500 => db' = db
       /\ \A p \in Procs :
            (pc[p] \in InTransaction /\ pc'[p] = "idle" /\ db' # Commit(db, tx[p]))
              => db' = db
       /\ Whole(db')]_vars

(* C10 witness: a reset has just failed in its transaction and the contest is still Won *)
Wit_C10 ==
    /\ out.req.op = "reset"
    /\ Status(out) = 500
    /\ Winner(db) # NULL
    /\ \E t \in Tokens : db.winner_claim_tokens[t].exists

----------------------------------------------------------------------------
(* Request p holds a row lock *)
HoldsLock(l, p) ==
    \/ l.cs = p
    \/ \E a \in Actors : l.al[a] = p
    \/ \E t \in Tokens : l.tok[t] = p

(* C11: submit_contact reaches its notification only by the commit of its     *)
(* redemption (token used, contact row stored, contact_submitted true), which *)
(* releases every row lock it holds; the notification step holds no lock and  *)
(* no open transaction, leaves the committed state as it is whether the send  *)
(* succeeds or fails, and answers 200 with emailSent telling which            *)
Thm_C11 ==
    [][\A p \in Procs :
          /\ (pc'[p] = "sc_email" /\ pc[p] # "sc_email")
               => /\ pc[p] = "sc_commit"
                  /\ db' = Commit(db, tx[p])
                  /\ ~HoldsLock(lk', p)
                  /\ db'.winner_claim_tokens[req[p].token].used_at # NULL
                  /\ db'.contest_state.contact_submitted
                  /\ db'.winner_contacts # {}
          /\ (pc[p] = "sc_email" /\ Moves(p))
               => /\ ~HoldsLock(lk, p)
                  /\ tx[p] = NoTx
                  /\ db' = db
                  /\ out'.req.op = "contact"
                  /\ Status(out') = 200
                  /\ out'.resp.emailSent \in BOOLEAN]_vars

(* C11 witness: a redemption whose notification failed has just been answered 200 *)
(* with emailSent=false and its committed effects are in place                     *)
Wit_C11 ==
    /\ out.req.op = "contact"
    /\ Status(out) = 200
    /\ ~out.resp.emailSent
    /\ db.winner_claim_tokens[out.req.token].used_at # NULL
    /\ db.contest_state.contact_submitted
    /\ \E c \in db.winner_contacts : c.actor_hash = Winner(db)

(* The statements of enter_code after its first lock acquisition and before the *)
(* end of its transaction                                                       *)
EcLocked ==
    {"ec_lock", "ec_fail", "ec_commit_blocked", "ec_commit_wrong",
     "ec_win1", "ec_win2", "ec_commit_win"}

(* C12 as stated: an enter_code about to take its first lock never has to wait *)
(* for the transaction of an enter_code of another actor                       *)
Orig_C12 ==
    \A p, q \in Procs :
        (/\ pc[p] = "ec_state"
         /\ pc[q] \in EcLocked
         /\ req[p].actor # req[q].actor)
        => lk.cs # q

(* C12 amended: enter_code requests do not run in parallel, whatever their     *)
(* actors: the first lock each takes is the one on the contest_state row, so   *)
(* at most one enter_code is between its first lock acquisition and the end of *)
(* its transaction, it holds the state row lock all that time, and any other   *)
(* enter_code waits before its first statement returns                         *)
Thm_C12 ==
    \A p \in Procs :
        pc[p] \in EcLocked
        => /\ lk.cs = p
           /\ \A q \in Procs \ {p} : pc[q] \notin EcLocked

(* C12 witness: an enter_code waits for the state row while the enter_code of *)
(* another actor, with another throttle row, holds it                         *)
Wit_C12 ==
    \E p, q \in Procs :
        /\ pc[p] = "ec_state"
        /\ pc[q] \in EcLocked
        /\ req[p].actor # req[q].actor
        /\ lk.cs = q
        /\ ~StateRowFree(p)

(* The statements of admin_reset inside its transaction *)
ArSteps == {"ar_cs", "ar_tok", "ar_con", "ar_al", "ar_commit"}

(* C13: an admin_reset is answered 404 when test mode is off, whatever its key, *)
(* and 401 when test mode is on and its key is missing or wrong; either way it  *)
(* opens no transaction, takes no lock and leaves the committed state as it is. *)
(* A reset transaction is opened only with test mode on and the configured key  *)
Thm_C13 ==
    [][/\ (out'.req.op = "reset" /\ Status(out') # 500)
            => IF ~TEST_MODE
               THEN Status(out') = 404 /\ db' = db /\ lk' = lk /\ tx' = tx
               ELSE IF out'.req.key # "good"
               THEN Status(out') = 401 /\ db' = db /\ lk' = lk /\ tx' = tx
               ELSE Status(out') = 200
       /\ \A p \in Procs :
            (pc'[p] \in ArSteps)
              => TEST_MODE /\ req'[p].op = "reset" /\ req'[p].key = "good"]_vars

(* C13 witness: with test mode off and the contest Won, a reset carrying the *)
(* configured key has just been answered 404                                 *)
Wit_C13 ==
    /\ ~TEST_MODE
    /\ out.req.op = "reset"
    /\ out.req.key = "good"
    /\ Status(out) = 404
    /\ Winner(db) # NULL

(* C14: the answer of enter_code is decided in a fixed order: a malformed code *)
(* is answered 400 before any transaction is opened; otherwise a set winner    *)
(* gives 409 whatever the actor's block and the code; otherwise a block that   *)
(* has not run out gives 429 whatever the code; only otherwise the code        *)
(* decides: the correct one wins, a wrong one is counted (401 or 429)          *)
Thm_C14 ==
    [][(out'.req.op = "enter" /\ Status(out') # 500)
        => LET c == out'.req.code
               a == out'.req.actor
           IN  IF Len(c) # 4 \/ \E i \in 1..Len(c) : c[i] \notin CodeChars
               THEN Status(out') = 400 /\ db' = db /\ lk' = lk /\ tx' = tx /\ pc' = pc
               ELSE IF Winner(db) # NULL
               THEN Status(out') = 409 /\ db' = db
               ELSE IF BlockedAt(db, a, now)
               THEN Status(out') = 429 /\ db' = db
               ELSE IF c = SecretCode
               THEN Status(out') = 200 /\ Winner(db') = a
               ELSE /\ Status(out') \in {401, 429}
                    /\ db'.attempt_locks[a] # db.attempt_locks[a]]_vars

(* C14 witness: a blocked actor's correct code has just been answered 409 *)
(* because another actor had won                                          *)
Wit_C14 ==
    /\ out.req.op = "enter"
    /\ RightCode(out)
    /\ Status(out) = 409
    /\ BlockedAt(db, out.req.actor, now)
    /\ Winner(db) # out.req.actor

(* The throttle row a counted wrong guess leaves, computed from the row it found *)
Counted(old, t) ==
    LET f == (IF old.exists THEN old.failed_count ELSE 0) + 1
    IN  IF f >= FAIL_THRESHOLD
        THEN [exists |-> TRUE, failed_count |-> 0, blocked_until |-> t + BLOCK_MINUTES]
        ELSE [exists |-> TRUE, failed_count |-> f, blocked_until |-> old.blocked_until]

(* C15: a wrong guess is counted on the row that is committed when it commits: *)
(* the row it read under the lock is still the committed one when it writes    *)
(* and when it commits, its INSERT never meets a row of the same actor, it      *)
(* never waits for a lock once it holds the state row, and its commit takes    *)
(* the committed row to the next row of the serial count                       *)
Thm_C15 ==
    [][\A p \in Procs :
          LET a == req[p].actor
          IN  /\ pc[p] \in EcLocked
                   => lk.cs = p /\ lk.al[a] \in {0, p}
              /\ pc[p] = "ec_fail"
                   => loc[p].lock = db.attempt_locks[a] /\ ~InsertClash(p, a)
              /\ (/\ pc[p] \in {"ec_commit_wrong", "ec_commit_blocked"}
                  /\ pc'[p] = "idle"
                  /\ Status(out') # 500)
                   => /\ ~BlockedAt(db, a, loc[p].tnow)
                      /\ db'.attempt_locks[a] = Counted(db.attempt_locks[a], loc[p].tnow)
                      /\ Status(out') = IF db'.attempt_locks[a].failed_count = 0 THEN 429 ELSE 401]_vars

(* C15 witness: of two concurrent wrong guesses of one actor that has no throttle *)
(* row yet, one has inserted the row and not committed, the other waits          *)
Wit_C15 ==
    \E p, q \in Procs :
        LET a == req[q].actor
        IN  /\ pc[q] = "ec_commit_wrong"
            /\ tx[q].al[a].op = "put"
            /\ ~db.attempt_locks[a].exists
            /\ pc[p] = "ec_state"
            /\ req[p].actor = a
            /\ ~Verify(req[p].code)
            /\ ~StateRowFree(p)

(* C16: a winning enter_code changes only winner_actor_hash and             *)
(* winner_claimed_at and inserts exactly one winner_claim_tokens row: every *)
(* attempt_locks row, the winner's own included, winner_contacts and        *)
(* contact_submitted are as before                                          *)
Thm_C16 ==
    [][(out'.req.op = "enter" /\ Status(out') = 200)
        => /\ db'.attempt_locks = db.attempt_locks
           /\ db'.winner_contacts = db.winner_contacts
           /\ db'.contest_state.contact_submitted = db.contest_state.contact_submitted
           /\ Winner(db) = NULL
           /\ Winner(db') = out'.req.actor
           /\ db'.contest_state.winner_claimed_at # NULL
           /\ \E t \in Tokens :
                 /\ ~db.winner_claim_tokens[t].exists
                 /\ db'.winner_claim_tokens[t].exists
                 /\ \A u \in Tokens \ {t} : db'.winner_claim_tokens[u] = db.winner_claim_tokens[u]]_vars

(* C16 witness: an actor with two counted wrong guesses has just won and its *)
(* throttle row still carries them                                           *)
Wit_C16 ==
    /\ out.req.op = "enter"
    /\ Status(out) = 200
    /\ Winner(db) = out.req.actor
    /\ db.attempt_locks[out.req.actor].failed_count = 2

(* The token rows of a committed state *)
TokenRows(d) == {t \in Tokens : d.winner_claim_tokens[t].exists}

(* C17: every committed state holds exactly one token row when a winner is set *)
(* and none otherwise, that row is bound to the winner, every contact row      *)
(* carries the winner's actor_hash, and a token row is inserted only into an   *)
(* empty table, so at most one token is issued between two resets              *)
Thm_C17 ==
    [][/\ Cardinality(TokenRows(db')) = IF Winner(db') # NULL THEN 1 ELSE 0
       /\ \A t \in TokenRows(db') : db'.winner_claim_tokens[t].actor_hash = Winner(db')
       /\ \A c \in db'.winner_contacts : c.actor_hash = Winner(db')
       /\ (TokenRows(db') \ TokenRows(db) # {}) => TokenRows(db) = {}]_vars

(* C17 witness: in the contest after a reset a caller other than the winner has *)
(* redeemed the one token: one token row, one contact row, both the winner's    *)
Wit_C17 ==
    /\ hist.voided # {}
    /\ Winner(db) # NULL
    /\ Cardinality(TokenRows(db)) = 1
    /\ Cardinality(db.winner_contacts) = 1
    /\ out.req.op = "contact"
    /\ Status(out) = 200
    /\ out.req.actor # Winner(db)

(* C18: every committed failed_count is 0, 1 or 2; a commit that sets a new   *)
(* blocked_until commits failed_count = 0 with it; so the first wrong guess   *)
(* counted after a block is answered 401 with remaining = 2                   *)
Thm_C18 ==
    [][\A a \in Actors :
          LET r == db'.attempt_locks[a]
              o == db.attempt_locks[a]
          IN  /\ r.failed_count \in 0..2
              /\ (r.exists /\ r.blocked_until # NULL /\ r.blocked_until # o.blocked_until)
                   => r.failed_count = 0
              /\ (/\ out'.req.op = "enter" /\ out'.req.actor = a /\ Status(out') = 401
                  /\ o.exists /\ o.blocked_until # NULL /\ o.failed_count = 0)
                   => out'.resp.remaining = 2 /\ r.failed_count = 1]_vars

(* C18 witness: an actor whose block has run out has just had a wrong guess *)
(* answered 401 with remaining = 2                                          *)
Wit_C18 ==
    /\ out.req.op = "enter"
    /\ Status(out) = 401
    /\ out.resp.remaining = 2
    /\ db.attempt_locks[out.req.actor].blocked_until # NULL
    /\ db.attempt_locks[out.req.actor].blocked_until <= now
    /\ db.attempt_locks[out.req.actor].failed_count = 1

(* The statement request p is at needs a row lock that request q holds *)
WaitsFor(p, q) ==
    /\ q # p
    /\ \/ pc[p] \in {"ec_state", "ec_win1", "sc_cs", "ar_cs"} /\ lk.cs = q
       \/ /\ pc[p] \in {"ec_lock", "ec_fail"}
          /\ db.attempt_locks[req[p].actor].exists
          /\ lk.al[req[p].actor] = q
       \/ /\ pc[p] \in {"sc_select", "sc_used"}
          /\ req[p].token \in TokenRows(db)
          /\ lk.tok[req[p].token] = q
       \/ pc[p] = "ar_tok" /\ \E t \in TokenRows(db) : lk.tok[t] = q
       \/ pc[p] = "ar_al" /\ \E a \in Actors : db.attempt_locks[a].exists /\ lk.al[a] = q

(* C19: no reachable state has two transactions each waiting for a row lock *)
(* the other holds                                                          *)
Orig_C19 ==
    \A p, q \in Procs : ~(WaitsFor(p, q) /\ WaitsFor(q, p))

(* The contest is Won and the winner's token has expired unredeemed at time t *)
WonExpired(d, t) ==
    /\ Winner(d) # NULL
    /\ \E k \in TokenRows(d) :
          /\ d.winner_claim_tokens[k].used_at = NULL
          /\ d.winner_claim_tokens[k].expires_at < t

(* C20 as stated: once the contest is Won and the winner's token has expired *)
(* unredeemed, only a successful admin_reset changes the committed state     *)
Orig_C20 ==
    [][(WonExpired(db, now) /\ db' # db) => ResetDone(out')]_vars

(* C20 amended: once the contest is Won and the winner's token has expired    *)
(* unredeemed, no enter_code or submit_contact call that arrives from then on *)
(* changes the committed state; besides a successful admin_reset the only     *)
(* change still possible is the commit of a redemption that arrived and       *)
(* passed its expiry test before the token expired                            *)
Thm_C20 ==
    [][(WonExpired(db, now) /\ db' # db)
        => \/ ResetDone(out')
           \/ \E p \in Procs :
                 /\ pc[p] = "sc_commit"
                 /\ pc'[p] = "sc_email"
                 /\ loc[p].txStart <= db.winner_claim_tokens[req[p].token].expires_at]_vars

(* C20 witness: with the winner's token expired unredeemed, another actor's *)
(* correct code has just been answered 409                                  *)
Wit_C20 ==
    /\ WonExpired(db, now)
    /\ out.req.op = "enter"
    /\ RightCode(out)
    /\ Status(out) = 409
    /\ out.req.actor # Winner(db)

====
